---- MODULE Spec2Model ----
(***************************************************************************)
(* ML4MIKC: the PPI entity (src/entities/ppi.py).                          *)
(*                                                                         *)
(* Part 1 models the interaction-consensus engine PPI.interact: the        *)
(* per-origin scoring score_single_origin_interactions and the cross-origin*)
(* resolution, with Python's dict and list-reference semantics.            *)
(* Part 2 models the attribute shard store: PPI.pickle, PPI._add_argument, *)
(* utils.pickle / utils.unpickle over a file system with a working         *)
(* directory.                                                              *)
(*                                                                         *)
(* Encoding of Python values in Part 1.  Raw measurement values are the    *)
(* strings "0" and "1" (the integers 0 and 1), "NC", "AUTO", "ND", "NLW"   *)
(* (the sentinel strings), "None" (None) and "nan" (float nan).  Verdicts  *)
(* are "1", "0" and "?"; a raised exception is the string of its class     *)
(* name ("KeyError", "IndexError", "ValueError").  After the discard step  *)
(* the numeric values 0, 0.5 and 1 are held doubled, as 0, 1 and 2, so     *)
(* that all arithmetic is integer arithmetic.                              *)
(***************************************************************************)
EXTENDS Integers, Sequences, FiniteSets, TLC

VARIABLES
    origin,       \* PPI.origin: sequence of source labels
    interaction,  \* PPI.interaction: sequence of lists of raw values
    ret,          \* what the last PPI.interact call returned or raised ("none" before)
    cwd,          \* working directory of the process
    files,        \* the file system: path -> pickle stream
    prots,        \* the Protein folder: key -> stored sequence
    obj,          \* __dict__ of the PPI instance in memory
    err,          \* exception raised by the last store operation ("" if none)
    loaded,       \* the last PPI(p1, p2, *args): its args, its __dict__ or its exception
    phase,        \* last store operation: "new", "set", "pickled", "repickled", "loaded"
    runs,         \* the pipeline runs: each one's PPI instance and position
    io,           \* the persist in progress: leaf writes to do, file open for writing
    it,           \* the PPI.iterate call in progress
    protein,      \* the last Protein construction: its __dict__ or its exception
    early_stopping, \* the EarlyStopping instance of a training loop and its calls
    map,          \* a Map, the last threshold given to cmap and what cmap returned
    walk          \* the Protein.iterate call in progress and what the one before yielded

engineVars == <<origin, interaction, ret>>
storeVars == <<cwd, files, prots, obj, err, loaded, phase>>
auxVars == <<runs, io, it, protein>>
otherVars == <<early_stopping, map, walk>>
vars == <<origin, interaction, ret, cwd, files, prots, obj, err, loaded, phase,
          runs, io, it, protein, early_stopping, map, walk>>

(***************************************************************************)
(* Bounds of the input domain.                                             *)
(***************************************************************************)
MaxLen == 5       \* longest raw value list of a single-origin PPI
MaxIgnored == 1   \* discarded values (None, nan, AUTO, ND, NLW) per such list
MaxOrigins == 3   \* longest origin / interaction sequence
MaxArgs == 2      \* attribute names passed to one PPI(p1, p2, *args)
MaxSets == 1      \* attributes a pipeline run assigns before it persists
MaxPPIs == 3      \* PPIs in the store that PPI.iterate goes over
MaxWorkers == 2   \* loads the worker pool runs at a time (50 in ppi.py:185)

RawValues == {"0", "1", "NC", "AUTO", "ND", "NLW", "None", "nan"}

PlainLabels == {"A", "B", "C"}
AmpLabels == {"A&1", "B&2"}
Labels == PlainLabels \cup AmpLabels

Verdicts == {"1", "0", "?"}
Errors == {"KeyError", "IndexError", "ValueError"}

\* '&' in origin   (ppi.py:262)
HasAmp(label) == label \in AmpLabels

SeqsUpTo(S, n) == UNION {[1..k -> S] : k \in 0..n}

Min(a, b) == IF a < b THEN a ELSE b

(***************************************************************************)
(* score_single_origin_interactions   (ppi.py:215-255)                     *)
(***************************************************************************)
\* Slip: the pd.isna test is left out, so nan is kept as a number.
DiscardedNoNan(v) == v \in {"None", "AUTO", "ND", "NLW"}

\* v in (None, 'AUTO', 'ND', 'NLW') or pd.isna(v)   (ppi.py:229)
Discarded(v) == v \in {"None", "AUTO", "ND", "NLW"} \/ v = "nan"

\* [v for v in values if not discarded]   (ppi.py:229)
Keep(values) == SelectSeq(values, LAMBDA v : ~Discarded(v))

\* 0.5 if v == 'NC' else v, doubled   (ppi.py:232)
Twice(v) == IF v = "NC" THEN 1 ELSE IF v = "1" THEN 2 ELSE 0

\* int(values[0]) of a doubled value 0 or 2   (ppi.py:237)
IntOf(d) == IF d = 2 THEN "1" ELSE "0"

RECURSIVE SumSeq(_)
SumSeq(s) == IF s = <<>> THEN 0 ELSE Head(s) + SumSeq(Tail(s))

Range(s) == {s[i] : i \in DOMAIN s}

\* Slip: the single value is returned as it is, 0.5 included.
ScoreOneRaw(nums) == IF nums[1] = 1 THEN "0.5" ELSE IntOf(nums[1])

\* len(values) == 1   (ppi.py:234-237)
ScoreOne(nums) == IF nums[1] = 1 THEN "?" ELSE IntOf(nums[1])

\* Slip: the test for 0 comes before the test for 1.
ScoreTwoZeroFirst(nums) ==
    IF 0 \in Range(nums) THEN "0"
    ELSE IF 2 \in Range(nums) THEN "1"
    ELSE IF nums = <<1, 1>> THEN "?"
    ELSE "ValueError"

\* len(values) == 2   (ppi.py:239-247)
ScoreTwo(nums) ==
    IF 2 \in Range(nums) THEN "1"
    ELSE IF 0 \in Range(nums) THEN "0"
    ELSE IF nums = <<1, 1>> THEN "?"
    ELSE "ValueError"

\* Slip: the thresholds are inclusive.
ScoreMeanInclusive(nums) ==
    LET s == SumSeq(nums)
        n == Len(nums)
    IN  IF 5 * s >= 6 * n THEN "1"
        ELSE IF 5 * s <= 4 * n THEN "0"
        ELSE "?"

\* average = sum(values) / len(values); average > 3/5, average < 2/5
\* (ppi.py:249-255).  With the doubled sum s and n values the average is
\* s/(2n); s/(2n) > 3/5 iff 5s > 6n and s/(2n) < 2/5 iff 5s < 4n.  The
\* float quotient and the float constants 3/5, 2/5 are correctly rounded,
\* so equal reals give equal floats, and unequal ones differ by at least
\* 1/(10n), far more than one rounding step.
ScoreMean(nums) ==
    LET s == SumSeq(nums)
        n == Len(nums)
    IN  IF 5 * s > 6 * n THEN "1"
        ELSE IF 5 * s < 4 * n THEN "0"
        ELSE "?"

score_single_origin_interactions(values) ==
    LET kept == Keep(values)
        nums == [i \in 1..Len(kept) |-> Twice(kept[i])]
    IN  IF kept = <<>> THEN "?"
        ELSE IF Len(nums) = 1 THEN ScoreOne(nums)
        ELSE IF Len(nums) = 2 THEN ScoreTwo(nums)
        ELSE ScoreMean(nums)

(***************************************************************************)
(* Python dict origin2interactions: an insertion-ordered sequence of       *)
(* entries [k |-> key, ref |-> index of a list object].  The list objects  *)
(* live in `cells`: cells[i] is the list self.interaction[i], and the last *)
(* cell is the list created by  origin2interactions['scoring'] = [].       *)
(***************************************************************************)
DictHas(d, k) == \E i \in DOMAIN d : d[i].k = k

DictGet(d, k) == d[CHOOSE i \in DOMAIN d : d[i].k = k].ref

\* d[k] = ref: an existing key keeps its position
DictSet(d, k, ref) ==
    IF DictHas(d, k)
    THEN [i \in DOMAIN d |-> IF d[i].k = k THEN [k |-> k, ref |-> ref] ELSE d[i]]
    ELSE Append(d, [k |-> k, ref |-> ref])

\* del d[k]
DictDel(d, k) == SelectSeq(d, LAMBDA e : e.k # k)

\* {origin: interaction for origin, interaction in zip(...)}   (ppi.py:261)
RECURSIVE ZipDict(_, _, _, _)
ZipDict(o, n, i, d) ==
    IF i > n THEN d ELSE ZipDict(o, n, i + 1, DictSet(d, o[i], i))

\* for k in scoring_origin: extend, del   (ppi.py:264-267)
\* st = [err, d, cells]; sc is the cell of the 'scoring' list
RECURSIVE ScoringLoop(_, _, _)
ScoringLoop(ks, st, sc) ==
    IF ks = <<>> \/ st.err # "" THEN st
    ELSE LET k == Head(ks)
         IN  IF ~DictHas(st.d, k)
             THEN [st EXCEPT !.err = "KeyError"]
             ELSE ScoringLoop(Tail(ks),
                      [err |-> "",
                       d |-> DictDel(st.d, k),
                       cells |-> [st.cells EXCEPT
                                    ![sc] = st.cells[sc] \o st.cells[DictGet(st.d, k)]]],
                      sc)

\* number of occurrences: scored.count(v), Counter(scored)[v]
Count(s, v) == Cardinality({i \in DOMAIN s : s[i] = v})

\* Slip: a tied vote goes to the verdict met first.
ResolveFirstSeen(scored) ==
    IF Cardinality(Range(scored)) = 1 THEN scored[1]
    ELSE LET left == SelectSeq(scored, LAMBDA s : s # "?")
             freqs == {Count(left, v) : v \in Range(left)}
             balanced == \A a, b \in freqs : a = b
         IN  IF left = <<>> THEN "ValueError"
             ELSE IF ~balanced
             THEN CHOOSE v \in Range(left) :
                      \A w \in Range(left) : Count(left, v) >= Count(left, w)
             ELSE left[1]

\* Slip: the most frequent verdict wins even when the vote is tied.
ResolvePlurality(scored) ==
    IF Cardinality(Range(scored)) = 1 THEN scored[1]
    ELSE LET left == SelectSeq(scored, LAMBDA s : s # "?")
         IN  IF left = <<>> THEN "ValueError"
             ELSE CHOOSE v \in Range(left) :
                      \A w \in Range(left) : Count(left, v) >= Count(left, w)

\* if len(set(scored)) == 1 ... else '?'   (ppi.py:277-285)
Resolve(scored) ==
    IF Cardinality(Range(scored)) = 1 THEN scored[1]
    ELSE LET left == SelectSeq(scored, LAMBDA s : s # "?")
             freqs == {Count(left, v) : v \in Range(left)}
             balanced == \A a, b \in freqs : a = b
         IN  IF Cardinality(Range(left)) = 1
             THEN CHOOSE v \in Range(left) : TRUE
             ELSE IF left = <<>> THEN "ValueError"     \* max() of an empty list
             ELSE IF ~balanced
             THEN CHOOSE v \in Range(left) :
                      \A w \in Range(left) : Count(left, v) >= Count(left, w)
             ELSE "?"

\* The first exception among the per-bucket scores, if any (ppi.py:276)
FirstError(scored) ==
    IF \E i \in DOMAIN scored : scored[i] \in Errors
    THEN scored[CHOOSE i \in DOMAIN scored :
                    scored[i] \in Errors /\ \A j \in 1..(i-1) : scored[j] \notin Errors]
    ELSE ""

\* Slip: the 'scoring' bucket starts as the list object of the first
\* '&' origin instead of a new list.
ScoringCellAlias(o, x) ==
    LET amp == {i \in 1..Min(Len(o), Len(x)) : HasAmp(o[i])}
    IN  IF amp = {} THEN Len(x) + 1
        ELSE CHOOSE i \in amp : \A j \in amp : i <= j

\* origin2interactions['scoring'] = []   (ppi.py:263): a new list object,
\* the cell after those of self.interaction
ScoringCell(o, x) == Len(x) + 1

\* The buckets of the cross-origin branch: the dict and list objects after
\* lines 261-269, or the exception raised on the way.
Buckets(o, x) ==
    LET n == Min(Len(o), Len(x))
        sc == ScoringCell(o, x)
        d0 == DictSet(ZipDict(o, n, 1, <<>>), "scoring", sc)
        ks == SelectSeq(o, HasAmp)
        st == ScoringLoop(ks, [err |-> "", d |-> d0, cells |-> Append(x, <<>>)], sc)
    IN  IF st.err # "" THEN st
        ELSE IF st.cells[sc] = <<>>
        THEN [st EXCEPT !.d = DictDel(st.d, "scoring")]
        ELSE st

\* PPI.interact   (ppi.py:193-285): [ret, interaction after the call]
interact(o, x) ==
    IF Len(o) = 1
    THEN [ret |-> IF x = <<>> THEN "IndexError"
                  ELSE score_single_origin_interactions(x[1]),
          interaction |-> x]
    ELSE LET st == Buckets(o, x)
             after == SubSeq(st.cells, 1, Len(x))
         IN  IF st.err # "" THEN [ret |-> st.err, interaction |-> after]
             ELSE IF Len(st.d) = 1 /\ DictHas(st.d, "scoring")
             THEN [ret |-> score_single_origin_interactions(
                               st.cells[DictGet(st.d, "scoring")]),
                   interaction |-> after]
             ELSE LET scored == [i \in DOMAIN st.d |->
                                   score_single_origin_interactions(st.cells[st.d[i].ref])]
                  IN  [ret |-> IF FirstError(scored) # "" THEN FirstError(scored)
                               ELSE Resolve(scored),
                       interaction |-> after]

(***************************************************************************)
(* Part 2: the attribute shard store.                                      *)
(*                                                                         *)
(* Python values: None, an opaque picklable object (a Map, a string, a     *)
(* label), a str holding a Protein key, a dict, and a Protein instance.    *)
(***************************************************************************)
None == [t |-> "none"]
Obj(s) == [t |-> "obj", v |-> s]
Str(s) == [t |-> "str", v |-> s]
Dict(m) == [t |-> "dict", m |-> m]
Prot(seq) == [t |-> "protein", seq |-> seq]

Payloads == {"v1", "v2"}
Seqs == {"s1", "s2"}
Keys == {"CA", "CB"}
KeyOrder ==
    <<"CA", "CB", "seq", "species", "uniprot_id", "domains", "taxon_id", "section",
      "primary_accession", "secondary_accession", "structure">>
Species == {"x", "y"}
Accessions == {"Q1"}

\* hashlib.md5(seq.encode()).hexdigest()   (protein.py:91)
md5(seq) == IF seq = "s1" THEN "h1" ELSE "h2"

\* dict nesting of the values the collaborators attach
Leafs == {Obj(p) : p \in Payloads}
FlatDicts == {Dict(m) : m \in UNION {[K -> Leafs] : K \in SUBSET Keys}}

\* __dict__ of a Protein: its sequence and, once annotated, its species
ProteinRecord(seq, sp) ==
    Dict([k \in (IF sp = "" THEN {"seq"} ELSE {"seq", "species"}) |->
             IF k = "seq" THEN Str(seq) ELSE Str(sp)])
ProteinRecords == {ProteinRecord(q, sp) : q \in Seqs, sp \in {""} \cup Species}

\* __dict__ of an Interactor   (interactor.py:45-52)
InteractorRecord(id, seq) ==
    Dict([k \in {"uniprot_id", "domains", "taxon_id", "section", "primary_accession",
                 "secondary_accession", "seq", "structure"} |->
             IF k = "uniprot_id" THEN Str(id)
             ELSE IF k = "domains" THEN Dict(<<>>)
             ELSE IF k = "seq" THEN Str(seq)
             ELSE Str("")])
InteractorRecords == {InteractorRecord(id, q) : id \in Accessions, q \in {""} \cup Seqs}

Picklable ==
    {None} \cup Leafs \cup {Str(md5(q)) : q \in Seqs} \cup FlatDicts
        \cup ProteinRecords \cup InteractorRecords

\* Directories: path.PPI, and the other directory the process may run in
Dirs == {"PPI", "ROOT"}

\* preserved_dicts   (ppi.py:295)
preserved_dicts == {"interface_features"}

(***************************************************************************)
(* utils.pickle / utils.unpickle   (utils.py:16-49).  A file holds the     *)
(* pickle stream of the value: a sequence of opcodes and operands.         *)
(***************************************************************************)
RECURSIVE DumpItems(_, _)
RECURSIVE Dumps(_)
Dumps(v) ==
    IF v.t = "none" THEN <<"N">>
    ELSE IF v.t = "obj" THEN <<"O", v.v>>
    ELSE IF v.t = "str" THEN <<"S", v.v>>
    ELSE <<"{">> \o DumpItems(v.m, 1) \o <<"}">>

DumpItems(m, i) ==
    IF i > Len(KeyOrder) THEN <<>>
    ELSE (IF KeyOrder[i] \in DOMAIN m
          THEN <<KeyOrder[i]>> \o Dumps(m[KeyOrder[i]])
          ELSE <<>>) \o DumpItems(m, i + 1)

\* pkl.load: the value the stream encodes; a stream that encodes none raises
Decodable(bytes) == \E v \in Picklable : Dumps(v) = bytes
Loads(bytes) == CHOOSE v \in Picklable : Dumps(v) = bytes

\* A file path: directory, file stem <<hashA, hashB>>, dotted extension
Path(dir, stem, ext) == [dir |-> dir, stem |-> stem, ext |-> ext]

\* Slip: a stream that cannot be decoded is taken for a missing file
unpickleLenient(fs, path) ==
    IF path \notin DOMAIN fs \/ ~Decodable(fs[path])
    THEN [err |-> "FileNotFoundError", obj |-> None]
    ELSE [err |-> "", obj |-> Loads(fs[path])]

\* utils.unpickle(path): [err, obj]
unpickle(fs, path) ==
    IF path \notin DOMAIN fs THEN [err |-> "FileNotFoundError", obj |-> None]
    ELSE IF ~Decodable(fs[path]) THEN [err |-> "UnpicklingError", obj |-> None]
    ELSE [err |-> "", obj |-> Loads(fs[path])]

\* Slip: the write replaces the files of the entity instead of adding one
pickleReplacing(fs, data, path) ==
    [q \in {f \in DOMAIN fs : f.dir # path.dir \/ f.stem # path.stem} \cup {path} |->
        IF q = path THEN Dumps(data) ELSE fs[q]]

\* utils.pickle(data, path): the file system after the write
pickle(fs, data, path) ==
    [q \in DOMAIN fs \cup {path} |-> IF q = path THEN Dumps(data) ELSE fs[q]]

(***************************************************************************)
(* Protein   (protein.py:53-91)                                            *)
(***************************************************************************)
\* Protein(hash): the stored record, or FileNotFoundError (new = False)
Protein(ps, hash) ==
    IF hash \in DOMAIN ps THEN [err |-> "", obj |-> Prot(ps[hash])]
    ELSE [err |-> "FileNotFoundError", obj |-> None]

\* PPI.p1 / PPI.p2 property followed by Protein.__hash__   (ppi.py:103-123)
HashOf(ps, v) ==
    IF v.t = "str"
    THEN LET r == Protein(ps, v.v)
         IN  IF r.err # "" THEN [err |-> r.err, hash |-> ""]
             ELSE [err |-> "", hash |-> md5(r.obj.seq)]
    ELSE [err |-> "", hash |-> md5(v.seq)]

\* PPI.__hash__   (ppi.py:136-145): the two keys in construction order
PPIHash(ps, d) ==
    LET a == HashOf(ps, d["p1"])
        b == HashOf(ps, d["p2"])
    IN  IF a.err # "" THEN [err |-> a.err, stem |-> <<>>]
        ELSE IF b.err # "" THEN [err |-> b.err, stem |-> <<>>]
        ELSE [err |-> "", stem |-> <<a.hash, b.hash>>]

(***************************************************************************)
(* PPI.pickle   (ppi.py:287-306)                                           *)
(***************************************************************************)
\* save_data: the leaf writes [ext, data] of one attribute.  k is the
\* attribute name of the enclosing loop, the same at every depth.
RECURSIVE save_data(_, _, _)
save_data(k, data, filepath) ==
    IF data.t = "dict" /\ k \notin preserved_dicts
    THEN UNION {save_data(k, data.m[key], Append(filepath, key)) : key \in DOMAIN data.m}
    ELSE IF data.t # "none" THEN {[ext |-> filepath, data |-> data]}
    ELSE {}

\* The directory './' of the written paths resolves to   (ppi.py:306)
PickleDir(workdir) == workdir

\* Slip: the two keys are crossed
KeyedCrossed(d, stem) == [d EXCEPT !["p1"] = Str(stem[2]), !["p2"] = Str(stem[1])]

\* self.p1 = self.p1.__hash__(); self.p2 = ...   (ppi.py:303-304)
Keyed(d, stem) == [d EXCEPT !["p1"] = Str(stem[1]), !["p2"] = Str(stem[2])]

\* every leaf write of  for k, v in self.__dict__.items()   (ppi.py:305-306)
Writes(d) == UNION {save_data(k, d[k], <<k>>) : k \in DOMAIN d}

\* the file system after utils.pickle of every leaf write   (ppi.py:301)
RECURSIVE PickleAll(_, _, _, _)
PickleAll(fs, dir, stem, ws) ==
    IF ws = {} THEN fs
    ELSE LET w == CHOOSE w \in ws : TRUE
         IN  PickleAll(pickle(fs, w.data, Path(dir, stem, w.ext)), dir, stem, ws \ {w})

(***************************************************************************)
(* PPI.__init__ / PPI._add_argument   (ppi.py:37-86)                       *)
(***************************************************************************)
\* nested = {subarg1: {subarg2: ... : obj}}   (ppi.py:66-72)
RECURSIVE Nest(_, _)
Nest(subargs, ob) ==
    IF subargs = <<>> THEN Dict(<<>>)
    ELSE IF Len(subargs) = 1 THEN Dict([k \in {subargs[1]} |-> ob])
    ELSE Dict([k \in {subargs[1]} |-> Nest(Tail(subargs), ob)])

\* m with m[k] = v
Put(m, k, v) == [q \in DOMAIN m \cup {k} |-> IF q = k THEN v ELSE m[q]]

\* existent[key].update(value): shallow, right-biased
Update(m, n) == [q \in DOMAIN m \cup DOMAIN n |-> IF q \in DOMAIN n THEN n[q] ELSE m[q]]

\* _add_argument(arg) on the instance dict d: [err, d]
add_argument(fs, ps, d, arg) ==
    LET stem == PPIHash(ps, d)
        r == unpickle(fs, Path("PPI", stem.stem, arg))
        ob == IF r.err = "FileNotFoundError" THEN None ELSE r.obj
        a == Head(arg)
        subargs == Tail(arg)
        existent == IF a \in DOMAIN d THEN d[a] ELSE None
        nested == Nest(subargs, ob)
    IN  IF stem.err # "" THEN [err |-> stem.err, d |-> d]
        ELSE IF r.err \notin {"", "FileNotFoundError"} THEN [err |-> r.err, d |-> d]
        ELSE IF existent = None
        THEN [err |-> "", d |-> Put(d, a, IF subargs # <<>> THEN nested ELSE ob)]
        ELSE IF subargs = <<>> THEN [err |-> "", d |-> d]
        ELSE IF existent.t # "dict" THEN [err |-> "TypeError", d |-> d]
        ELSE LET key == subargs[1]
                 value == nested.m[key]
             IN  IF key \in DOMAIN existent.m
                 THEN IF existent.m[key].t # "dict"
                      THEN [err |-> "AttributeError", d |-> d]
                      ELSE IF value.t # "dict"
                      THEN [err |-> "TypeError", d |-> d]
                      ELSE [err |-> "",
                            d |-> Put(d, a, Dict(Put(existent.m, key,
                                      Dict(Update(existent.m[key].m, value.m)))))]
                 ELSE [err |-> "", d |-> Put(d, a, Dict(Put(existent.m, key, value)))]

\* for arg in args: self._add_argument(arg)   (ppi.py:41-42)
RECURSIVE AddAll(_, _, _, _)
AddAll(fs, ps, st, args) ==
    IF args = <<>> \/ st.err # "" THEN st
    ELSE AddAll(fs, ps, add_argument(fs, ps, st.d, Head(args)), Tail(args))

\* PPI(p1, p2, *args)   (ppi.py:37-42)
NewDict(p1, p2) == [k \in {"p1", "p2"} |-> IF k = "p1" THEN p1 ELSE p2]
PPI(fs, ps, p1, p2, args) == AddAll(fs, ps, [err |-> "", d |-> NewDict(p1, p2)], args)

(***************************************************************************)
(* Input domain of the engine.                                             *)
(***************************************************************************)
ValueLists ==
    {l \in SeqsUpTo(RawValues, MaxLen) :
        Cardinality({i \in DOMAIN l : Discarded(l[i])}) <= MaxIgnored}

\* one source's list in a PPI with several sources: at most one reading, of
\* each kind the scoring tells apart
Readings == {<<>>, <<"1">>, <<"0">>, <<"NC">>, <<"ND">>}

SoloEvidence ==
    {[origin |-> <<l>>, interaction |-> <<v>>] : l \in {"A", "A&1"}, v \in ValueLists}

MultiEvidence ==
    {e \in [origin : SeqsUpTo(Labels, MaxOrigins),
            interaction : SeqsUpTo(Readings, MaxOrigins)] :
        /\ Len(e.origin) - Len(e.interaction) \in {-1, 0, 1}}

Evidence == SoloEvidence \cup MultiEvidence

\* no PPI constructed from the store yet
NotLoaded == [args |-> <<>>, err |-> "none", d |-> <<>>]

StoredProteins == [h \in {"h1", "h2"} |-> IF h = "h1" THEN "s1" ELSE "s2"]

\* no pipeline run, no persist in progress, no iteration, no Protein built
NoRuns == <<>>
NoFile == [path |-> "none"]
NoIO == [pc |-> "idle", kind |-> "none", todo |-> {}, open |-> NoFile, pos |-> 0]
NoIteration ==
    [pc |-> "idle", names |-> <<>>, cache |-> <<>>, loads |-> <<>>, objs |-> <<>>,
     proteins |-> <<>>,
     err |-> "", started |-> {}, done |-> <<>>, results |-> <<>>, ppis |-> <<>>,
     emitted |-> <<>>]
NoProtein == [kind |-> "none", key |-> "", new |-> FALSE, err |-> "none", d |-> <<>>]

\* best_loss is <<>> while it is None and <<l>> once it holds the loss l
NoStopper == [patience |-> 0, min_delta |-> 0, best_loss |-> <<>>, counter |-> 0,
              early_stop |-> FALSE, losses |-> <<>>, ret |-> "none"]
NoMap == [matrix |-> <<>>, threshold |-> 0, out |-> <<>>, called |-> FALSE]
NoWalk == [pc |-> "idle", order |-> <<>>, emitted |-> <<>>, before |-> <<>>, calls |-> 0]
IdleOther ==
    /\ early_stopping = NoStopper
    /\ map = NoMap
    /\ walk = NoWalk

IdleAux ==
    /\ runs = NoRuns
    /\ io = NoIO
    /\ it = NoIteration
    /\ protein = NoProtein
    /\ IdleOther

\* The store as it is when the engine runs: nothing stored, a new PPI
IdleStore ==
    /\ cwd = "PPI"
    /\ files = <<>>
    /\ prots = StoredProteins
    /\ obj = NewDict(Prot("s1"), Prot("s2"))
    /\ err = ""
    /\ loaded = NotLoaded
    /\ phase = "new"
    /\ IdleAux

InitEngine ==
    /\ \E e \in Evidence : origin = e.origin /\ interaction = e.interaction
    /\ ret = "none"
    /\ IdleStore

\* ppi.interact()
Interact ==
    /\ LET r == interact(origin, interaction)
       IN  /\ ret' = r.ret
           /\ interaction' = r.interaction
    /\ UNCHANGED origin
    /\ UNCHANGED storeVars
    /\ UNCHANGED auxVars
    /\ UNCHANGED otherVars

NextEngine == Interact

SpecInteract == InitEngine /\ [][NextEngine]_vars

(***************************************************************************)
(* The store: collaborators attach attributes to a PPI, persist it and     *)
(* construct it again from the store.                                      *)
(***************************************************************************)
AttrNames == {"partition", "distance_map", "interface_features"}

AttrValues(a) ==
    IF a = "partition" THEN {Obj("v1"), None}
    ELSE IF a = "distance_map"
    THEN {Dict(<<>>),
          Dict([k \in {"CA"} |-> Obj("v1")]),
          Dict([k \in {"CA"} |-> Obj("v2")]),
          Dict([k \in {"CB"} |-> Obj("v2")]),
          Dict([k \in {"CA", "CB"} |-> Obj("v1")])}
    ELSE {Dict([k \in {"CA"} |-> Obj("v1")])}

\* dotted attribute names: 'partition', 'distance_map.CA', ...
Names ==
    {<<"partition">>, <<"distance_map">>, <<"distance_map", "CA">>,
     <<"distance_map", "CB">>, <<"interface_features">>}

ArgSeqs ==
    {a \in SeqsUpTo(Names, MaxArgs) : \A i, j \in DOMAIN a : i # j => a[i] # a[j]}

\* the sequence of the Protein that p1 / p2 refers to
SeqOf(v) == IF v.t = "protein" THEN v.seq ELSE prots[v.v]

\* PPI.new(**kwargs)   (ppi.py:88-101): p1, p2 and any of the attributes
NewPPIs ==
    {d \in UNION {[{"p1", "p2"} \cup A -> {Prot(q) : q \in Seqs} \cup
                      UNION {AttrValues(a) : a \in AttrNames}] : A \in SUBSET AttrNames} :
        /\ d["p1"].t = "protein" /\ d["p2"].t = "protein"
        /\ \A a \in DOMAIN d \ {"p1", "p2"} : d[a] \in AttrValues(a)}

InitStore ==
    /\ origin = <<>>
    /\ interaction = <<>>
    /\ ret = "none"
    /\ cwd \in Dirs
    /\ files = <<>>
    /\ prots = StoredProteins
    /\ obj \in NewPPIs
    /\ err = ""
    /\ loaded = NotLoaded
    /\ phase = "new"
    /\ IdleAux

\* ppi.<a> = v, on an instance not persisted yet
SetAttr(a, v) ==
    /\ phase \in {"new", "set"}
    /\ obj' = Put(obj, a, v)
    /\ phase' = "set"
    /\ err' = ""
    /\ UNCHANGED <<cwd, files, prots, loaded, engineVars, otherVars, auxVars>>

\* ppi.pickle(), and ppi.pickle() once more on the same instance
Pickle ==
    /\ phase \in {"new", "set", "pickled"}
    /\ LET h == PPIHash(prots, obj)
       IN  IF h.err # ""
           THEN /\ err' = h.err
                /\ UNCHANGED <<files, obj>>
           ELSE /\ err' = ""
                /\ obj' = Keyed(obj, h.stem)
                /\ files' = PickleAll(files, PickleDir(cwd), h.stem,
                                      Writes(Keyed(obj, h.stem)))
    /\ phase' = IF phase = "pickled" THEN "repickled" ELSE "pickled"
    /\ UNCHANGED <<cwd, prots, loaded, engineVars, otherVars, auxVars>>

\* PPI(p1, p2, *args) for the same two Proteins
Load(args) ==
    /\ phase \in {"pickled", "repickled", "loaded"}
    /\ LET r == PPI(files, prots, Prot(SeqOf(obj["p1"])), Prot(SeqOf(obj["p2"])), args)
       IN  loaded' = [args |-> args, err |-> r.err, d |-> r.d]
    /\ phase' = "loaded"
    /\ UNCHANGED <<cwd, files, prots, obj, err, engineVars, otherVars, auxVars>>

Next ==
    \/ \E a \in AttrNames : \E v \in AttrValues(a) : SetAttr(a, v)
    \/ Pickle
    \/ \E args \in ArgSeqs : Load(args)

Init == InitStore

Spec == Init /\ [][Next]_vars

(***************************************************************************)
(* Pipeline runs.  A run constructs a PPI from the store (directly, or as  *)
(* PPI.iterate does, which always asks for interaction, origin and         *)
(* partition), assigns an attribute and persists the PPI.  The store holds *)
(* what an earlier run persisted.                                          *)
(***************************************************************************)
Runs == {"A", "B"}

\* the pairs of sequences the runs construct their PPI for
Pairs == {<<"s1", "s2">>, <<"s2", "s1">>}

\* args = (*args, 'interaction', 'origin', 'partition')   (ppi.py:168)
Core == <<<<"interaction">>, <<"origin">>, <<"partition">>>>

\* the names a run constructs its PPI with
RunArgs == {<<>>, Core, <<<<"distance_map", "CA">>>> \o Core}

\* what a run assigns
RunValues(a) ==
    IF a = "partition" THEN {Obj("v2")}
    ELSE {Dict([k \in {"CA"} |-> Obj("v2")]), Dict([k \in {"CB"} |-> Obj("v2")])}

\* the PPI of s1 and s2 as an earlier run persisted it
SeedPPIs ==
    {d \in UNION {[{"p1", "p2", "interaction", "origin"} \cup A ->
                      {Prot("s1"), Prot("s2"), Obj("v1"),
                       Dict([k \in {"CA"} |-> Obj("v1")])}] :
                  A \in SUBSET {"partition", "distance_map"}} :
        /\ d["p1"] = Prot("s1") /\ d["p2"] = Prot("s2")
        /\ d["interaction"] = Obj("v1") /\ d["origin"] = Obj("v1")
        /\ "partition" \in DOMAIN d => d["partition"] = Obj("v1")
        /\ "distance_map" \in DOMAIN d
               => d["distance_map"] = Dict([k \in {"CA"} |-> Obj("v1")])}

\* the files ppi.pickle() of such a PPI leaves
SeedFiles(workdir, d) ==
    LET stem == PPIHash(StoredProteins, d).stem
    IN  PickleAll(<<>>, PickleDir(workdir), stem, Writes(Keyed(d, stem)))

IdleRun == [pc |-> "idle", d |-> <<>>, touched |-> {}]

InitRuns ==
    /\ origin = <<>>
    /\ interaction = <<>>
    /\ ret = "none"
    /\ cwd \in Dirs
    /\ \E d \in SeedPPIs : files = SeedFiles(cwd, d)
    /\ prots = StoredProteins
    /\ obj = NewDict(Prot("s1"), Prot("s2"))
    /\ err = ""
    /\ loaded = NotLoaded
    /\ phase = "new"
    /\ runs = [r \in Runs |-> IdleRun]
    /\ io = NoIO
    /\ it = NoIteration
    /\ protein = NoProtein
    /\ IdleOther

\* the file stem of the PPI of run r
StemOf(r) == PPIHash(prots, runs[r].d).stem

\* PPI(p1, p2, *args)
RunLoad(r, pair, args) ==
    /\ runs[r].pc = "idle"
    /\ LET st == PPI(files, prots, Prot(pair[1]), Prot(pair[2]), args)
       IN  runs' = [runs EXCEPT ![r] =
                       [pc |-> IF st.err = "" THEN "loaded" ELSE "failed",
                        d |-> st.d, touched |-> {}]]
    /\ UNCHANGED <<engineVars, otherVars, storeVars, io, it, protein>>

\* ppi.<a> = v
RunSet(r, a, v) ==
    /\ runs[r].pc = "loaded"
    /\ Cardinality(runs[r].touched) < MaxSets
    /\ runs' = [runs EXCEPT ![r].d = Put(runs[r].d, a, v),
                            ![r].touched = runs[r].touched \cup {a}]
    /\ UNCHANGED <<engineVars, otherVars, storeVars, io, it, protein>>

\* ppi.pickle()
RunPersist(r) ==
    /\ runs[r].pc = "loaded"
    /\ LET stem == StemOf(r)
       IN  /\ files' = PickleAll(files, PickleDir(cwd), stem,
                                 Writes(Keyed(runs[r].d, stem)))
           /\ runs' = [runs EXCEPT ![r].pc = "done",
                                   ![r].d = Keyed(runs[r].d, stem)]
    /\ UNCHANGED <<engineVars, otherVars, cwd, prots, obj, err, loaded, phase, io, it, protein>>

NextRuns ==
    \/ \E r \in Runs : \E pair \in Pairs : \E args \in RunArgs : RunLoad(r, pair, args)
    \/ \E r \in Runs : \E a \in {"partition", "distance_map"} :
           \E v \in RunValues(a) : RunSet(r, a, v)
    \/ \E r \in Runs : RunPersist(r)

SpecRuns == InitRuns /\ [][NextRuns]_vars

(***************************************************************************)
(* A persist step by step.  utils.pickle opens the file for writing, which *)
(* empties it, pkl.dump writes the stream, and leaving the with block      *)
(* closes the file   (utils.py:27-32).  The process may stop between any   *)
(* two steps; what it leaves is read by the next process.                  *)
(***************************************************************************)
\* Protein.__init__: file stem of a sequence or of a key   (protein.py:54-58)
FileStem(x) == IF x \in Seqs THEN md5(x) ELSE x

ProteinPath(x) == Path("PROTEIN", <<FileStem(x)>>, <<"prot">>)
InteractorPath(id) == Path("INTERACTORS", <<id>>, <<"int">>)

\* Slip: a placeholder is made whether or not the lookup is mandatory
ProteinInitLenient(fs, x, new) ==
    LET r == unpickle(fs, ProteinPath(x))
    IN  IF r.err = "" THEN [err |-> "", d |-> r.obj.m]
        ELSE IF r.err = "FileNotFoundError" THEN [err |-> "", d |-> <<>>]
        ELSE [err |-> r.err, d |-> <<>>]

\* Protein(seq, new): [err, d], d the attributes set   (protein.py:53-69)
ProteinInit(fs, x, new) ==
    LET r == unpickle(fs, ProteinPath(x))
    IN  IF r.err = "" THEN [err |-> "", d |-> r.obj.m]
        ELSE IF r.err = "FileNotFoundError"
        THEN [err |-> IF new THEN "" ELSE "FileNotFoundError", d |-> <<>>]
        ELSE [err |-> r.err, d |-> <<>>]

\* Interactor(uniprot_id): [err, d]   (interactor.py:36-52)
InteractorInit(fs, id) ==
    LET r == unpickle(fs, InteractorPath(id))
    IN  IF r.err = "" THEN [err |-> "", d |-> r.obj.m]
        ELSE IF r.err = "FileNotFoundError"
        THEN [err |-> "", d |-> InteractorRecord(id, "").m]
        ELSE [err |-> r.err, d |-> <<>>]

\* the utils.pickle calls of ppi.pickle(), protein.pickle(), interactor.pickle()
PPIWrites(workdir, d) ==
    LET stem == PPIHash(prots, d).stem
    IN  {[path |-> Path(PickleDir(workdir), stem, w.ext), data |-> w.data] :
            w \in Writes(Keyed(d, stem))}
ProteinWrites(rec) == {[path |-> ProteinPath(rec.m["seq"].v), data |-> rec]}
InteractorWrites(rec) == {[path |-> InteractorPath(rec.m["uniprot_id"].v), data |-> rec]}

\* the PPI the interrupted process persists
CrashPPIs ==
    {d \in NewPPIs : /\ d["p1"] = Prot("s1") /\ d["p2"] = Prot("s2")
                     /\ "partition" \in DOMAIN d => d["partition"] = Obj("v1")
                     /\ "distance_map" \in DOMAIN d
                            => d["distance_map"] = Dict([k \in {"CB"} |-> Obj("v2")])}

InitCrash ==
    /\ origin = <<>>
    /\ interaction = <<>>
    /\ ret = "none"
    /\ cwd \in Dirs
    /\ \E d \in SeedPPIs :
           files = pickle(pickle(SeedFiles(cwd, d),
                                 ProteinRecord("s1", "x"), ProteinPath("s1")),
                          InteractorRecord("Q1", ""), InteractorPath("Q1"))
    /\ prots = StoredProteins
    /\ obj \in CrashPPIs
    /\ err = ""
    /\ loaded = NotLoaded
    /\ phase = "new"
    /\ runs = NoRuns
    /\ io = NoIO
    /\ it = NoIteration
    /\ protein = NoProtein
    /\ IdleOther

\* pickle() is entered: the leaves it will write
PersistBegin(kind, ws) ==
    /\ io.pc = "idle"
    /\ io' = [pc |-> "writing", kind |-> kind, todo |-> ws, open |-> NoFile, pos |-> 0]
    /\ obj' = IF kind = "ppi" THEN Keyed(obj, PPIHash(prots, obj).stem) ELSE obj
    /\ UNCHANGED <<engineVars, otherVars, cwd, files, prots, err, loaded, phase, runs, it, protein>>

\* with open(path, 'wb') as handle
WriteOpen(w) ==
    /\ io.pc = "writing" /\ io.open = NoFile /\ w \in io.todo
    /\ files' = [q \in DOMAIN files \cup {w.path} |-> IF q = w.path THEN <<>> ELSE files[q]]
    /\ io' = [io EXCEPT !.open = w, !.pos = 0]
    /\ UNCHANGED <<engineVars, otherVars, cwd, prots, obj, err, loaded, phase, runs, it, protein>>

\* pkl.dump: the next part of the stream reaches the file
WriteDump ==
    /\ io.pc = "writing" /\ io.open # NoFile
    /\ io.pos < Len(Dumps(io.open.data))
    /\ files' = [files EXCEPT ![io.open.path] = SubSeq(Dumps(io.open.data), 1, io.pos + 1)]
    /\ io' = [io EXCEPT !.pos = io.pos + 1]
    /\ UNCHANGED <<engineVars, otherVars, cwd, prots, obj, err, loaded, phase, runs, it, protein>>

\* the with block is left; pickle() returns after the last leaf
WriteClose ==
    /\ io.pc = "writing" /\ io.open # NoFile
    /\ io.pos = Len(Dumps(io.open.data))
    /\ io' = [io EXCEPT !.todo = io.todo \ {io.open}, !.open = NoFile, !.pos = 0,
                        !.pc = IF io.todo = {io.open} THEN "done" ELSE "writing"]
    /\ phase' = IF io.todo = {io.open} THEN "pickled" ELSE phase
    /\ UNCHANGED <<engineVars, otherVars, cwd, files, prots, obj, err, loaded, runs, it, protein>>

\* the process stops
Crash ==
    /\ io.pc = "writing"
    /\ io' = [io EXCEPT !.pc = "crashed"]
    /\ UNCHANGED <<engineVars, otherVars, storeVars, runs, it, protein>>

\* the next process constructs one entity: PPI(p1, p2, *args)
CrashLoad(args) ==
    /\ io.pc \in {"crashed", "done"}
    /\ LET r == PPI(files, prots, Prot("s1"), Prot("s2"), args)
       IN  loaded' = [args |-> args, err |-> r.err, d |-> r.d]
    /\ io' = [io EXCEPT !.pc = "read"]
    /\ UNCHANGED <<engineVars, otherVars, cwd, files, prots, obj, err, phase, runs, it, protein>>

\* or Protein(seq), or Interactor(uniprot_id)
CrashProtein(x) ==
    /\ io.pc \in {"crashed", "done"}
    /\ LET r == ProteinInit(files, x, FALSE)
       IN  protein' = [kind |-> "protein", key |-> x, new |-> FALSE,
                       err |-> r.err, d |-> r.d]
    /\ io' = [io EXCEPT !.pc = "read"]
    /\ UNCHANGED <<engineVars, otherVars, storeVars, runs, it>>

CrashInteractor(id) ==
    /\ io.pc \in {"crashed", "done"}
    /\ LET r == InteractorInit(files, id)
       IN  protein' = [kind |-> "interactor", key |-> id, new |-> FALSE,
                       err |-> r.err, d |-> r.d]
    /\ io' = [io EXCEPT !.pc = "read"]
    /\ UNCHANGED <<engineVars, otherVars, storeVars, runs, it>>

CrashArgs ==
    {<<>>, <<<<"partition">>>>, <<<<"interface_features">>>>,
     <<<<"distance_map", "CA">>, <<"distance_map", "CB">>>>}

NextCrash ==
    \/ PersistBegin("ppi", PPIWrites(cwd, obj))
    \/ \E rec \in ProteinRecords : PersistBegin("protein", ProteinWrites(rec))
    \/ \E rec \in InteractorRecords : PersistBegin("interactor", InteractorWrites(rec))
    \/ \E w \in io.todo : WriteOpen(w)
    \/ WriteDump
    \/ WriteClose
    \/ Crash
    \/ \E args \in CrashArgs : CrashLoad(args)
    \/ \E x \in Seqs : CrashProtein(x)
    \/ \E id \in Accessions : CrashInteractor(id)

SpecCrash == InitCrash /\ [][NextCrash]_vars

(***************************************************************************)
(* PPI.iterate   (ppi.py:147-191): the '.p1' files are listed and sorted,  *)
(* the Proteins are resolved one after the other through the cache, the    *)
(* PPIs are constructed by the worker pool, executor.map hands the results *)
(* back in the order of submission, and the generator yields the list.     *)
(***************************************************************************)
Hashes == {md5(q) : q \in Seqs}

\* str comparison of two keys of equal length
Rank(h) == IF h = "h1" THEN 1 ELSE 2
KeyLess(a, b) == Rank(a[1]) < Rank(b[1]) \/ (a[1] = b[1] /\ Rank(a[2]) < Rank(b[2]))

\* sorted(...)
RECURSIVE Sorted(_)
Sorted(S) ==
    IF S = {} THEN <<>>
    ELSE LET m == CHOOSE x \in S : \A y \in S \ {x} : KeyLess(x, y)
         IN  <<m>> \o Sorted(S \ {m})

\* path.PPI.glob('*.p1'), the stems split at '='   (ppi.py:177-178)
GlobP1(fs) == {q.stem : q \in {f \in DOMAIN fs : f.dir = "PPI" /\ f.ext = <<"p1">>}}

\* Slip: hash2protein without @cache
hash2proteinUncached(st, h) ==
    LET r == Protein(prots, h)
        id == Len(st.objs) + 1
    IN  IF st.err # "" THEN st
        ELSE IF r.err # "" THEN [st EXCEPT !.err = r.err]
        ELSE [st EXCEPT !.loads[h] = st.loads[h] + 1,
                        !.objs = Append(st.objs, r.obj),
                        !.out = Append(st.out, id)]

\* hash2protein(hash_) under @cache   (ppi.py:172-174): st holds the cache,
\* the loads made, the Protein objects made and the references handed out
hash2protein(st, h) ==
    LET r == Protein(prots, h)
        id == Len(st.objs) + 1
    IN  IF st.err # "" THEN st
        ELSE IF h \in DOMAIN st.cache
        THEN [st EXCEPT !.out = Append(st.out, st.cache[h])]
        ELSE IF r.err # "" THEN [st EXCEPT !.err = r.err]
        ELSE [st EXCEPT !.cache = Put(st.cache, h, id),
                        !.loads[h] = st.loads[h] + 1,
                        !.objs = Append(st.objs, r.obj),
                        !.out = Append(st.out, id)]

\* proteins = [(hash2protein(p1), hash2protein(p2)) for p1, p2 in ...]   (ppi.py:180)
RECURSIVE ResolveAll(_, _)
ResolveAll(st, names) ==
    IF names = <<>> THEN st
    ELSE ResolveAll(hash2protein(hash2protein(st, Head(names)[1]), Head(names)[2]),
                    Tail(names))

\* the result executor.map hands over next: the next in submission order
CollectIndexAsCompleted(i_t) ==
    IF Len(i_t.done) > Len(i_t.ppis) THEN i_t.done[Len(i_t.ppis) + 1]
    ELSE Len(i_t.ppis) + 1

CollectIndex(i_t) == Len(i_t.ppis) + 1

\* the PPIs persisted before the iteration, and what is left of the store
AllPairs == {<<a, b>> : a \in Seqs, b \in Seqs}

RECURSIVE StoreAll(_, _, _)
StoreAll(fs, workdir, K) ==
    IF K = {} THEN fs
    ELSE LET k == CHOOSE k \in K : TRUE
             d == Put(NewDict(Prot(k[1]), Prot(k[2])), "partition", Obj("v1"))
             stem == PPIHash(StoredProteins, d).stem
         IN  StoreAll(PickleAll(fs, PickleDir(workdir), stem, Writes(Keyed(d, stem))),
                      workdir, K \ {k})

\* what an interrupted write leaves of a file   (utils.py:27)
Truncated(fs, q) == [f \in DOMAIN fs |-> IF f = q THEN <<>> ELSE fs[f]]

InitIterate ==
    /\ origin = <<>>
    /\ interaction = <<>>
    /\ ret = "none"
    /\ cwd \in Dirs
    /\ \E K \in SUBSET AllPairs :
           /\ Cardinality(K) <= MaxPPIs
           /\ \/ files = StoreAll(<<>>, cwd, K)
              \/ \E k \in K :
                     files = Truncated(StoreAll(<<>>, cwd, K),
                                       Path(PickleDir(cwd), <<md5(k[1]), md5(k[2])>>,
                                            <<"partition">>))
    /\ \E H \in SUBSET Hashes : prots = [h \in H |-> StoredProteins[h]]
    /\ obj = NewDict(Prot("s1"), Prot("s2"))
    /\ err = ""
    /\ loaded = NotLoaded
    /\ phase = "new"
    /\ runs = NoRuns
    /\ io = NoIO
    /\ it = NoIteration
    /\ protein = NoProtein
    /\ IdleOther

\* the generator is started: listing, sorting, resolving   (ppi.py:177-180)
IterBegin ==
    /\ it.pc = "idle"
    /\ LET names == Sorted(GlobP1(files))
           st == ResolveAll([cache |-> <<>>, loads |-> [h \in Hashes |-> 0],
                             objs |-> <<>>, out |-> <<>>, err |-> ""], names)
       IN  it' = [it EXCEPT
                    !.pc = IF st.err # "" THEN "raised"
                           ELSE IF names = <<>> THEN "yield" ELSE "pool",
                    !.names = names,
                    !.cache = st.cache,
                    !.loads = st.loads,
                    !.objs = st.objs,
                    !.proteins = IF st.err # "" THEN <<>>
                                 ELSE [i \in DOMAIN names |->
                                          <<st.out[2 * i - 1], st.out[2 * i]>>],
                    !.err = st.err]
    /\ UNCHANGED <<engineVars, otherVars, storeVars, runs, io, protein>>

\* a free worker takes the next submitted call instantiate(proteins[i])
WorkerStart(i) ==
    /\ it.pc = "pool"
    /\ i = Cardinality(it.started) + 1
    /\ i <= Len(it.names)
    /\ Cardinality(it.started \ Range(it.done)) < MaxWorkers
    /\ it' = [it EXCEPT !.started = it.started \cup {i}]
    /\ UNCHANGED <<engineVars, otherVars, storeVars, runs, io, protein>>

\* the call returns PPI(p1, p2, *args), or raises   (ppi.py:169-171)
WorkerFinish(i) ==
    /\ it.pc = "pool"
    /\ i \in it.started \ Range(it.done)
    /\ LET r == PPI(files, prots, it.objs[it.proteins[i][1]],
                    it.objs[it.proteins[i][2]], Core)
       IN  it' = [it EXCEPT !.results = Put(it.results, i, r),
                            !.done = Append(it.done, i)]
    /\ UNCHANGED <<engineVars, otherVars, storeVars, runs, io, protein>>

\* for result in executor.map(...): ppis.append(result)   (ppi.py:186-187)
Collect ==
    /\ it.pc = "pool"
    /\ LET n == CollectIndex(it)
       IN  /\ n \in DOMAIN it.results
           /\ IF it.results[n].err # ""
              THEN it' = [it EXCEPT !.pc = "raised", !.err = it.results[n].err]
              ELSE it' = [it EXCEPT
                            !.ppis = Append(it.ppis,
                                            [key |-> it.names[n],
                                             p1 |-> it.proteins[n][1],
                                             p2 |-> it.proteins[n][2],
                                             d |-> it.results[n].d]),
                            !.pc = IF Len(it.ppis) + 1 = Len(it.names)
                                   THEN "yield" ELSE "pool"]
    /\ UNCHANGED <<engineVars, otherVars, storeVars, runs, io, protein>>

\* for ppi in ppis: yield ppi   (ppi.py:190-191)
Yield ==
    /\ it.pc = "yield"
    /\ Len(it.emitted) < Len(it.ppis)
    /\ it' = [it EXCEPT !.emitted = Append(it.emitted, it.ppis[Len(it.emitted) + 1])]
    /\ UNCHANGED <<engineVars, otherVars, storeVars, runs, io, protein>>

\* the generator is exhausted
IterEnd ==
    /\ it.pc = "yield"
    /\ Len(it.emitted) = Len(it.ppis)
    /\ it' = [it EXCEPT !.pc = "finished"]
    /\ UNCHANGED <<engineVars, otherVars, storeVars, runs, io, protein>>

NextIterate ==
    \/ IterBegin
    \/ \E i \in 1..MaxPPIs + 1 : WorkerStart(i)
    \/ \E i \in it.started : WorkerFinish(i)
    \/ Collect
    \/ Yield
    \/ IterEnd

SpecIterate == InitIterate /\ [][NextIterate]_vars

(***************************************************************************)
(* The Protein folder: Protein(x), Protein.new, protein.pickle()            *)
(* (protein.py:53-69, 93-106, 143-153).                                    *)
(***************************************************************************)
InitProtein ==
    /\ origin = <<>>
    /\ interaction = <<>>
    /\ ret = "none"
    /\ cwd \in Dirs
    /\ files = <<>>
    /\ prots = StoredProteins
    /\ obj = NewDict(Prot("s1"), Prot("s2"))
    /\ err = ""
    /\ loaded = NotLoaded
    /\ phase = "new"
    /\ runs = NoRuns
    /\ io = NoIO
    /\ it = NoIteration
    /\ protein = NoProtein
    /\ IdleOther

\* Protein(x): the lookup is mandatory
ProteinGet(x) ==
    /\ LET r == ProteinInit(files, x, FALSE)
       IN  protein' = [kind |-> "protein", key |-> x, new |-> FALSE,
                       err |-> r.err, d |-> r.d]
    /\ UNCHANGED <<engineVars, otherVars, storeVars, runs, io, it>>

\* Protein.new with the items of rec as keyword arguments
ProteinNew(rec) ==
    /\ LET r == ProteinInit(files, rec.m["seq"].v, TRUE)
       IN  protein' = [kind |-> "protein", key |-> rec.m["seq"].v, new |-> TRUE,
                       err |-> r.err,
                       d |-> IF r.err = "" THEN Update(r.d, rec.m) ELSE <<>>]
    /\ UNCHANGED <<engineVars, otherVars, storeVars, runs, io, it>>

\* protein.pickle()
ProteinPickle ==
    /\ protein.kind = "protein" /\ protein.err = ""
    /\ files' = pickle(files, Dict(protein.d), ProteinPath(protein.d["seq"].v))
    /\ UNCHANGED <<engineVars, otherVars, cwd, prots, obj, err, loaded, phase, runs, io, it, protein>>

NextProtein ==
    \/ \E x \in Seqs \cup Hashes : ProteinGet(x)
    \/ \E rec \in ProteinRecords : ProteinNew(rec)
    \/ ProteinPickle

SpecProtein == InitProtein /\ [][NextProtein]_vars

(***************************************************************************)
(* Properties of the consensus engine, checked under SpecInteract.  The    *)
(* call leaves origin and interaction as they were (C9), so in a state     *)
(* with ret # "none" they are the evidence the call was made on.           *)
(***************************************************************************)
Called == ret # "none"
Returned == Called /\ ret \notin Errors
SameLength == Len(origin) = Len(interaction)
Solo == Len(origin) = 1 /\ Len(interaction) = 1

\* the values that count, by the list of the claim: 0, 1 and NC
Remaining(values) == SelectSeq(values, LAMBDA v : v \in {"0", "1", "NC"})

Reverse(s) == [i \in 1..Len(s) |-> s[Len(s) + 1 - i]]

\* C1: with origin and interaction of the same length and raw values among
\* 0, 1, NC, AUTO, ND, NLW and missing, whatever interact returns is one of
\* 1, 0 and '?'.
C1_VerdictRange == (Returned /\ SameLength) => ret \in Verdicts

C1_Witness == Called /\ SameLength /\ Len(origin) = 3 /\ ret = "?"

\* the buckets interact votes over, and the verdict of each
BucketState == Buckets(origin, interaction)
BucketVerdicts ==
    [i \in DOMAIN BucketState.d |->
        score_single_origin_interactions(BucketState.cells[BucketState.d[i].ref])]

\* the vote of the claim: a common verdict, else the strict majority of the
\* verdicts other than '?', else '?'
MajorityVote(v) ==
    IF \A i, j \in DOMAIN v : v[i] = v[j] THEN v[1]
    ELSE IF Count(v, "1") > Count(v, "0") THEN "1"
    ELSE IF Count(v, "0") > Count(v, "1") THEN "0"
    ELSE "?"

\* C2: with two or more buckets, identical per-bucket verdicts give that
\* verdict; otherwise the '?' verdicts are dropped and the verdict held by
\* strictly more of the remaining buckets wins, a tie giving '?'.
C2_CrossOrigin ==
    (Called /\ Len(origin) # 1 /\ BucketState.err = "" /\ Len(BucketState.d) >= 2)
        => ret = MajorityVote(BucketVerdicts)

C2_Witness ==
    /\ origin = <<"A", "B", "C">>
    /\ interaction = <<<<"1">>, <<"1">>, <<"0">>>>
    /\ ret = "1"

\* the raw values of all '&' origins, concatenated in origin order
RECURSIVE Pooled(_, _, _)
Pooled(o, x, i) ==
    IF i > Len(o) THEN <<>>
    ELSE (IF o[i] \in AmpLabels THEN x[i] ELSE <<>>) \o Pooled(o, x, i + 1)

\* the verdicts of the origins without '&', one per entry
PlainVerdicts(o, x) ==
    LET idx == SelectSeq([i \in 1..Len(o) |-> i], LAMBDA i : o[i] \notin AmpLabels)
    IN  [j \in DOMAIN idx |-> score_single_origin_interactions(x[idx[j]])]

\* C3: all '&' origins are pooled into one bucket that is scored once on
\* the pooled raw values and counts as a single bucket; when it is the only
\* bucket its score is the verdict.
C3_PooledScoring ==
    (/\ Called /\ SameLength /\ Len(origin) >= 2
     /\ Pooled(origin, interaction, 1) # <<>>
     /\ \A i, j \in DOMAIN origin :
            (i # j /\ origin[i] = origin[j]) => origin[i] \in AmpLabels)
        => LET pooled == score_single_origin_interactions(Pooled(origin, interaction, 1))
               plain == PlainVerdicts(origin, interaction)
           IN  ret = IF plain = <<>> THEN pooled
                     ELSE MajorityVote(<<pooled>> \o plain)

\* C4: when no evidence bucket survives, the verdict is '?'.
C4_NoBucket ==
    (Called /\ SameLength /\ Len(origin) # 1
        /\ BucketState.err = "" /\ BucketState.d = <<>>)
        => ret = "?"

\* C5: interact fails, and returns no verdict, whenever origin and
\* interaction differ in length.
C5_LengthMismatch == (Called /\ ~SameLength) => ret \in Errors

\* C6: with exactly two values remaining the verdict is 1 if either is 1,
\* else 0 if either is 0, else '?', whatever the order of the two.
C6_TwoValues ==
    (Called /\ Solo /\ Len(Remaining(interaction[1])) = 2)
        => /\ ret = IF "1" \in Range(Remaining(interaction[1])) THEN "1"
                    ELSE IF "0" \in Range(Remaining(interaction[1])) THEN "0"
                    ELSE "?"
           /\ ret = interact(origin, <<Reverse(interaction[1])>>).ret

C6_Witness ==
    Called /\ origin = <<"A">> /\ interaction = <<<<"1", "NC">>>> /\ ret = "1"

\* C7: with three or more values remaining, NC counting 0.5, the verdict is
\* 1 exactly when the mean exceeds 0.6, 0 exactly when it is below 0.4, and
\* '?' otherwise: (ones + ncs/2)/n > 3/5 iff 10 ones + 5 ncs > 6 n.
C7_Mean ==
    (Called /\ Solo /\ Len(Remaining(interaction[1])) >= 3)
        => LET r == Remaining(interaction[1])
               n == Len(r)
               m == 10 * Count(r, "1") + 5 * Count(r, "NC")
           IN  /\ ret \in Verdicts
               /\ (ret = "1") <=> (m > 6 * n)
               /\ (ret = "0") <=> (m < 4 * n)

C7_Witness ==
    Called /\ interaction = <<<<"1", "1", "0", "0", "0">>>> /\ ret = "?"

\* C8: missing values and AUTO, ND, NLW are ignored: with nothing left the
\* verdict is '?', with one value left it is 1 for 1, 0 for 0, '?' for NC.
C8_Discard ==
    (Called /\ Solo)
        => LET r == Remaining(interaction[1])
           IN  /\ Len(r) = 0 => ret = "?"
               /\ Len(r) = 1 => ret = (IF r[1] = "NC" THEN "?" ELSE r[1])
               /\ ret = interact(origin, <<r>>).ret

C8_Witness ==
    Called /\ origin = <<"A">> /\ interaction = <<<<"nan", "1">>>> /\ ret = "1"

\* C9: a call of interact leaves origin, interaction (every inner list) and
\* the rest of the PPI and of the store as they were, and a further call
\* returns what the call before returned.
C9_Pure ==
    [][Interact => /\ origin' = origin
                   /\ interaction' = interaction
                   /\ UNCHANGED storeVars
                   /\ UNCHANGED auxVars
                   /\ UNCHANGED otherVars
                   /\ (Called => ret' = ret)]_vars

C9_Witness ==
    /\ origin = <<"A&1", "B&2">>
    /\ interaction = <<<<"1">>, <<"0">>>>
    /\ ret = "1"

(***************************************************************************)
(* Properties of the store, checked under Spec.                            *)
(***************************************************************************)
\* the names under which the leaves of the attributes of d are addressed:
\* the attribute itself, or attribute.key for each key of a mapping
LeafNames(d) ==
    UNION {IF d[a].t = "dict" /\ a # "interface_features"
           THEN {<<a, k>> : k \in DOMAIN d[a].m}
           ELSE {<<a>>} : a \in DOMAIN d \ {"p1", "p2"}}

\* the value d holds under such a name
LeafAt(d, name) == IF Len(name) = 1 THEN d[name[1]] ELSE d[name[1]].m[name[2]]

HasLeaf(d, name) ==
    /\ name[1] \in DOMAIN d
    /\ Len(name) = 2 => (d[name[1]].t = "dict" /\ name[2] \in DOMAIN d[name[1]].m)

\* C10: after pickle, the PPI constructed for the same Proteins with the
\* names of the attributes that were set holds, under each name, the value
\* that was written.
C10_RoundTrip ==
    (phase = "loaded" /\ err = "" /\ Range(loaded.args) = LeafNames(obj))
        => /\ loaded.err = ""
           /\ \A name \in LeafNames(obj) :
                  HasLeaf(loaded.d, name) /\ LeafAt(loaded.d, name) = LeafAt(obj, name)

(***************************************************************************)
(* Properties of persisting by several runs, checked under SpecRuns.       *)
(***************************************************************************)
\* the mapping read back for attribute a of the PPI of run r, asking for
\* a.CA and a.CB
ReadBack(fs, r, a) ==
    PPI(fs, prots, Prot(SeqOf(runs[r].d["p1"])), Prot(SeqOf(runs[r].d["p2"])),
        <<<<a, "CA">>, <<a, "CB">>>>).d[a].m

\* C11: persisting a PPI whose mapping attribute holds some keys, after an
\* earlier persist of the same PPI key wrote others, leaves the leaves of
\* both stored: read back, the keys of the newer write hold the newer
\* value and the keys only in the older write hold the older one (a key
\* whose value is None is not written).
C11_MergeOnWrite ==
    [][\A r \in Runs :
          (RunPersist(r) /\ "distance_map" \in DOMAIN runs[r].d
                         /\ runs[r].d["distance_map"].t = "dict")
              => \A k \in Keys :
                     ReadBack(files', r, "distance_map")[k] =
                         IF /\ k \in DOMAIN runs[r].d["distance_map"].m
                            /\ runs[r].d["distance_map"].m[k] # None
                         THEN runs[r].d["distance_map"].m[k]
                         ELSE ReadBack(files, r, "distance_map")[k]]_vars

\* the attributes of the instance dict d that hold a value
Holding(d) == {a \in DOMAIN d : d[a] # None}

\* C12: pickle of a PPI changes no stored shard of an attribute the PPI
\* does not hold, deletes no shard, and changes no shard of another key.
C12_SparseWrite ==
    [][\A r \in Runs :
          RunPersist(r)
              => \A q \in DOMAIN files :
                     /\ q \in DOMAIN files'
                     /\ (q.stem # StemOf(r) \/ q.ext[1] \notin Holding(runs[r].d))
                            => files'[q] = files[q]]_vars

\* a run that held only p1, p2 and partition has persisted, and the store
\* holds the distance_map shard of the same key
C12_Witness ==
    \E r \in Runs :
        /\ runs[r].pc = "done"
        /\ Holding(runs[r].d) = {"p1", "p2", "partition"}
        /\ Path(PickleDir(cwd), StemOf(r), <<"distance_map", "CA">>) \in DOMAIN files
        /\ Path(PickleDir(cwd), StemOf(r), <<"partition">>) \in DOMAIN files

\* the leaves of attribute a of run r are stored as the run holds them
Stored(r, a) ==
    \A w \in save_data(a, runs[r].d[a], <<a>>) :
        LET q == Path(PickleDir(cwd), StemOf(r), w.ext)
        IN  q \in DOMAIN files /\ files[q] = Dumps(w.data)

\* C13: when two runs load the same PPI, each assigns a different
\* attribute and each persists, both runs' new values are stored afterwards.
C13_NoStaleOverwrite ==
    (/\ \A r \in Runs : runs[r].pc = "done" /\ runs[r].touched # {}
     /\ StemOf("A") = StemOf("B")
     /\ runs["A"].touched \cap runs["B"].touched = {})
        => \A r \in Runs : \A a \in runs[r].touched : Stored(r, a)

(***************************************************************************)
(* Properties of an interrupted persist, checked under SpecCrash.          *)
(***************************************************************************)
\* C14: at every point of a persist each file holds its complete previous
\* value or the complete new value: a step leaves a file as it was or
\* leaves in it the whole stream of the value being written.
C14_AtomicWrite ==
    [][\A q \in DOMAIN files' :
          \/ q \in DOMAIN files /\ files'[q] = files[q]
          \/ \E w \in io.todo : w.path = q /\ files'[q] = Dumps(w.data)]_vars

\* the file a whole-record construction reads
RecordPath == IF protein.kind = "protein" THEN ProteinPath(protein.key)
              ELSE InteractorPath(protein.key)

\* C19: a construction that asks for a shard that exists and cannot be
\* decoded ends with the decode error and yields no entity, for a PPI, a
\* Protein and an Interactor alike.
C19_DecodeError ==
    /\ (/\ io.pc = "read" /\ loaded # NotLoaded
        /\ \E i \in DOMAIN loaded.args :
               LET q == Path("PPI", <<"h1", "h2">>, loaded.args[i])
               IN  q \in DOMAIN files /\ ~Decodable(files[q]))
           => loaded.err = "UnpicklingError"
    /\ (/\ io.pc = "read" /\ protein # NoProtein
        /\ RecordPath \in DOMAIN files /\ ~Decodable(files[RecordPath]))
           => protein.err = "UnpicklingError" /\ protein.d = <<>>

C19_Witness ==
    /\ io.pc = "read"
    /\ loaded.args = <<<<"interface_features">>>>
    /\ loaded.err = "UnpicklingError"
    /\ files[Path("PPI", <<"h1", "h2">>, <<"interface_features">>)] = <<"{", "CA">>

(***************************************************************************)
(* Properties of PPI.iterate, checked under SpecIterate.                   *)
(***************************************************************************)
\* C15: the PPIs are collected and emitted in the sorted order of their
\* keys, whatever the order in which the loads of the pool complete.
C15_EmissionOrder ==
    /\ \A i, j \in DOMAIN it.ppis : i < j => KeyLess(it.ppis[i].key, it.ppis[j].key)
    /\ \A i \in DOMAIN it.emitted : it.emitted[i] = it.ppis[i]
    /\ it.pc = "finished" => {it.emitted[i].key : i \in DOMAIN it.emitted} = GlobP1(files)

\* all were emitted although the second load completed before the first
C15_Witness ==
    /\ it.pc = "finished"
    /\ Len(it.emitted) = 3
    /\ it.done[1] = 2

\* the keys of the Proteins the listed PPIs refer to
Referenced == UNION {{it.names[i][1], it.names[i][2]} : i \in DOMAIN it.names}

\* C16: within one iterate each distinct Protein key is loaded once,
\* however many PPIs refer to it, and every PPI that refers to the key
\* holds the one Protein loaded for it.
C16_LoadOnce ==
    /\ \A h \in DOMAIN it.loads : it.loads[h] <= 1
    /\ (it.pc \in {"pool", "yield", "finished"})
           => /\ \A h \in Referenced : it.loads[h] = 1
              /\ Len(it.objs) = Cardinality(Referenced)
    /\ \A i \in DOMAIN it.ppis :
           /\ it.ppis[i].p1 = it.cache[it.ppis[i].key[1]]
           /\ it.ppis[i].p2 = it.cache[it.ppis[i].key[2]]
           /\ it.ppis[i].d["p1"] = it.objs[it.ppis[i].p1]
           /\ it.ppis[i].d["p2"] = it.objs[it.ppis[i].p2]

\* three PPIs over two Proteins were emitted
C16_Witness ==
    /\ it.pc = "finished"
    /\ Len(it.emitted) = 3
    /\ Cardinality(Referenced) = 2

\* the listed PPI key k loads: its Proteins are stored and its shards decode
Loadable(k) ==
    /\ k[1] \in DOMAIN prots /\ k[2] \in DOMAIN prots
    /\ PPI(files, prots, Prot(prots[k[1]]), Prot(prots[k[2]]), Core).err = ""

\* C17: when the load of one entity fails, the iteration skips it and
\* still yields every other entity.
C17_SkipBad ==
    (it.pc \in {"finished", "raised"})
        => {it.emitted[i].key : i \in DOMAIN it.emitted}
               = {k \in GlobP1(files) : Loadable(k)}

(***************************************************************************)
(* Properties of reading the store, checked under Spec and SpecProtein.    *)
(***************************************************************************)
\* C18: a PPI constructed with one attribute name that has no shard in the
\* store raises nothing and has that attribute not set.
C18_MissingShard ==
    (/\ phase = "loaded" /\ err = "" /\ Len(loaded.args) = 1
     /\ Path("PPI", PPIHash(prots, obj).stem, loaded.args[1]) \notin DOMAIN files)
        => loaded.err = "" /\ loaded.args[1][1] \notin DOMAIN loaded.d

\* C20: Protein(x) for which nothing is stored fails with the not-found
\* error, yields no entity and writes no file; Protein.new for a sequence
\* for which nothing is stored yields an entity with the attributes given
\* and no others, and writes no file.
C20_ConstructOrLoad ==
    [][/\ \A x \in Seqs \cup Hashes :
              (ProteinGet(x) /\ ProteinPath(x) \notin DOMAIN files)
                  => /\ protein'.err = "FileNotFoundError"
                     /\ protein'.d = <<>>
                     /\ files' = files
       /\ \A rec \in ProteinRecords :
              (ProteinNew(rec) /\ ProteinPath(rec.m["seq"].v) \notin DOMAIN files)
                  => /\ protein'.err = ""
                     /\ protein'.d = rec.m
                     /\ files' = files]_vars

\* with s2 stored and s1 not, Protein(s1) failed
C20_Witness ==
    /\ ProteinPath("s2") \in DOMAIN files
    /\ ProteinPath("s1") \notin DOMAIN files
    /\ protein.key = "s1" /\ ~protein.new
    /\ protein.err = "FileNotFoundError"

(***************************************************************************)
(* Enumeration of the store, checked under SpecIterate.                    *)
(***************************************************************************)
\* the keys PPI.pickle has persisted: every pickle writes the shard '.p1'
Persisted == {q.stem : q \in {f \in DOMAIN files : f.ext = <<"p1">>}}

\* the keys of the PPIs the generator has yielded, in order
EmittedKeys == [i \in DOMAIN it.emitted |-> it.emitted[i].key]

\* C21: after PPI.pickle calls, PPI.iterate yields exactly one PPI for every
\* persisted key and none for any other key.
C21_EnumerationComplete ==
    (it.pc \in {"finished", "raised"})
        => /\ Range(EmittedKeys) = Persisted
           /\ Len(EmittedKeys) = Cardinality(Persisted)

(***************************************************************************)
(* Backup and restore.  The repository declares the backup root            *)
(* (path.py:37) and holds no code that uses it: snapshot and restore are   *)
(* modelled from the specification (Backup/Restore, Backup namespace).     *)
(* The backup namespace mirrors the primary one under the root "BACKUP".   *)
(***************************************************************************)
\* the shards of the PPI stem in the namespace dir
ShardsOf(fs, dir, stem) == {f \in DOMAIN fs : f.dir = dir /\ f.stem = stem}

\* Slip: the snapshot copies the canonical shard of every entity only
SnapshotFilesCanonical(fs) ==
    LET copied == {f \in DOMAIN fs : f.dir = "PPI" /\ f.stem \in GlobP1(fs)
                                     /\ f.ext = <<"p1">>}
        mirror == {Path("BACKUP", f.stem, f.ext) : f \in copied}
    IN  [q \in DOMAIN fs \cup mirror |->
            IF q \in mirror THEN fs[Path("PPI", q.stem, q.ext)] ELSE fs[q]]

\* full-store snapshot: every shard of every enumerated entity is copied
\* into the backup namespace
SnapshotFiles(fs) ==
    LET copied == {f \in DOMAIN fs : f.dir = "PPI" /\ f.stem \in GlobP1(fs)}
        mirror == {Path("BACKUP", f.stem, f.ext) : f \in copied}
    IN  [q \in DOMAIN fs \cup mirror |->
            IF q \in mirror THEN fs[Path("PPI", q.stem, q.ext)] ELSE fs[q]]

\* the backup namespace of fs read as a primary namespace
Mirror(fs) ==
    LET kept == {f \in DOMAIN fs : f.dir = "BACKUP"}
    IN  [q \in {Path("PPI", f.stem, f.ext) : f \in kept} |->
            fs[Path("BACKUP", q.stem, q.ext)]]

\* the shard names of a set of files, in some order
RECURSIVE ExtSeq(_)
ExtSeq(F) ==
    IF F = {} THEN <<>>
    ELSE LET f == CHOOSE f \in F : TRUE
         IN  <<f.ext>> \o ExtSeq(F \ {f})

\* restore of the entity with the instance dict d: [err, d], the state read
\* from every shard the snapshot holds for its key, NotFound without one
RestoreState(fs, ps, d) ==
    LET h == PPIHash(ps, d)
        snap == ShardsOf(fs, "BACKUP", h.stem)
        attrs == {f \in snap : f.ext \notin {<<"p1">>, <<"p2">>}}
    IN  IF h.err # "" THEN [err |-> h.err, d |-> d]
        ELSE IF snap = {} THEN [err |-> "NotFound", d |-> d]
        ELSE PPI(Mirror(fs), ps, Prot(ps[h.stem[1]]), Prot(ps[h.stem[2]]), ExtSeq(attrs))

\* the PPIs of the store that is backed up
BackupPairs == {<<"s1", "s2">>, <<"s2", "s1">>}

\* the store holds PPIs persisted earlier; one PPI is in memory
InitBackup ==
    /\ origin = <<>>
    /\ interaction = <<>>
    /\ ret = "none"
    /\ cwd = "PPI"
    /\ \E K \in SUBSET BackupPairs : files = StoreAll(<<>>, cwd, K)
    /\ prots = StoredProteins
    /\ \E k \in BackupPairs : obj = NewDict(Prot(k[1]), Prot(k[2]))
    /\ err = ""
    /\ loaded = NotLoaded
    /\ phase = "new"
    /\ IdleAux

\* ppi.<a> = v on the instance in memory
BackupSet(a, v) ==
    /\ obj' = Put(obj, a, v)
    /\ err' = ""
    /\ phase' = "set"
    /\ UNCHANGED <<cwd, files, prots, loaded, engineVars, otherVars, auxVars>>

\* ppi.pickle() of the instance in memory
BackupPickle ==
    /\ LET h == PPIHash(prots, obj)
       IN  /\ obj' = Keyed(obj, h.stem)
           /\ files' = PickleAll(files, PickleDir(cwd), h.stem, Writes(Keyed(obj, h.stem)))
    /\ err' = ""
    /\ phase' = "pickled"
    /\ UNCHANGED <<cwd, prots, loaded, engineVars, otherVars, auxVars>>

\* the full-store snapshot
Snapshot ==
    /\ files' = SnapshotFiles(files)
    /\ err' = ""
    /\ phase' = "snapshot"
    /\ UNCHANGED <<cwd, prots, obj, loaded, engineVars, otherVars, auxVars>>

\* restore of the instance in memory
Restore ==
    /\ LET r == RestoreState(files, prots, obj)
       IN  /\ err' = r.err
           /\ obj' = r.d
    /\ phase' = "restored"
    /\ UNCHANGED <<cwd, files, prots, loaded, engineVars, otherVars, auxVars>>

NextBackup ==
    \/ \E v \in {Dict([k \in {"CA"} |-> Obj("v1")]), Dict([k \in {"CA"} |-> Obj("v2")]),
               Dict([k \in {"CA", "CB"} |-> Obj("v2")])} :
           BackupSet("distance_map", v)
    \/ BackupPickle
    \/ Snapshot
    \/ Restore

SpecBackup == InitBackup /\ [][NextBackup]_vars

\* the attribute shards the snapshot holds for the PPI stem
SnapshotOf(fs, stem) ==
    {f \in ShardsOf(fs, "BACKUP", stem) : f.ext \notin {<<"p1">>, <<"p2">>}}

\* C22: a full-store snapshot copies every shard of every enumerated entity
\* into the backup namespace; restoring an entity replaces its in-memory
\* state by what the snapshot holds for its key, and fails with the
\* not-found error, changing nothing, when the snapshot holds nothing for it.
C22_BackupRestore ==
    [][/\ Snapshot =>
              \A k \in GlobP1(files) : \A f \in ShardsOf(files, "PPI", k) :
                  /\ Path("BACKUP", k, f.ext) \in DOMAIN files'
                  /\ files'[Path("BACKUP", k, f.ext)] = files[f]
       /\ Restore =>
              LET k == PPIHash(prots, obj).stem
              IN  IF ShardsOf(files, "BACKUP", k) = {}
                  THEN err' = "NotFound" /\ obj' = obj
                  ELSE /\ err' = ""
                       /\ LeafNames(obj') = {f.ext : f \in SnapshotOf(files, k)}
                       /\ \A f \in SnapshotOf(files, k) :
                              LeafAt(obj', f.ext) = Loads(files[f])]_vars

\* the entity was restored to a snapshot that its primary shards and its
\* in-memory state had both moved away from
C22_Witness ==
    /\ phase = "restored" /\ err = ""
    /\ Path("BACKUP", <<"h1", "h2">>, <<"distance_map", "CA">>) \in DOMAIN files
    /\ files[Path("BACKUP", <<"h1", "h2">>, <<"distance_map", "CA">>)] = Dumps(Obj("v1"))
    /\ files[Path("PPI", <<"h1", "h2">>, <<"distance_map", "CA">>)] = Dumps(Obj("v2"))
    /\ files[Path("PPI", <<"h1", "h2">>, <<"distance_map", "CB">>)] = Dumps(Obj("v2"))
    /\ Path("BACKUP", <<"h1", "h2">>, <<"distance_map", "CB">>) \notin DOMAIN files
    /\ obj["p1"] = Prot("s1") /\ obj["p2"] = Prot("s2")
    /\ obj["distance_map"] = Dict([k \in {"CA"} |-> Obj("v1")])

(***************************************************************************)
(* Further properties of PPI.interact, checked under SpecInteract.         *)
(***************************************************************************)
\* two entries of origin carry the same label
HasDuplicate == \E i, j \in DOMAIN origin : i # j /\ origin[i] = origin[j]

\* one verdict for the pooled '&' entries, if they hold a value, and one
\* for every other entry of origin
EntryVerdicts(o, x) ==
    (IF Pooled(o, x, 1) # <<>>
     THEN <<score_single_origin_interactions(Pooled(o, x, 1))>> ELSE <<>>)
        \o PlainVerdicts(o, x)

\* C23: when two entries of origin carry the same label, interact raises
\* no error and the values of every entry count in the verdict.
C23_DuplicateLabels ==
    (Called /\ SameLength /\ Len(origin) >= 2 /\ HasDuplicate)
        => /\ ret \notin Errors
           /\ EntryVerdicts(origin, interaction) # <<>>
                  => ret = MajorityVote(EntryVerdicts(origin, interaction))

\* the reorderings of n positions, and a sequence reordered by one
Perms(n) == {p \in [1..n -> 1..n] : \A i, j \in 1..n : i # j => p[i] # p[j]}
Permuted(s, p) == [i \in 1..Len(s) |-> s[p[i]]]

\* C29: with pairwise distinct labels, interact returns the same verdict
\* when the (origin[i], interaction[i]) pairs are reordered together and
\* when the values inside one interaction[i] are reordered.
C29_OrderInvariant ==
    (Called /\ SameLength /\ ~HasDuplicate)
        => /\ \A p \in Perms(Len(origin)) :
                  interact(Permuted(origin, p), Permuted(interaction, p)).ret = ret
           /\ \A i \in DOMAIN interaction : \A q \in Perms(Len(interaction[i])) :
                  interact(origin, [interaction EXCEPT ![i] = Permuted(interaction[i], q)]).ret
                      = ret

\* three sources with distinct labels in a split vote
C29_Witness ==
    /\ origin = <<"A", "B", "C">>
    /\ interaction = <<<<"1">>, <<"0">>, <<"0">>>>
    /\ ret = "0"

(***************************************************************************)
(* Hydration of nested attributes: a PPI whose attribute is a mapping of   *)
(* mappings is persisted, leaf by leaf, and a PPI for the same Proteins    *)
(* is hydrated with the dotted names of its shards, one _add_argument at   *)
(* a time   (ppi.py:37-86, 287-306).                                       *)
(***************************************************************************)
MaxDepth == 4    \* longest dotted name: arg.sub1.sub2.sub3
MaxLeaves == 2   \* leaves of the persisted attribute

\* the key paths of n keys
RECURSIVE KeyPaths(_)
KeyPaths(n) ==
    IF n = 0 THEN {<<>>}
    ELSE {<<k>> \o p : k \in Keys, p \in KeyPaths(n - 1)}

\* the mapping that holds a leaf under each of the key paths P, all of one
\* length; the leaf tells the last key of its path
RECURSIVE Tree(_)
Tree(P) ==
    Dict([k \in {p[1] : p \in P} |->
             IF \A p \in P : Len(p) = 1
             THEN Obj(IF k = "CA" THEN "v1" ELSE "v2")
             ELSE Tree({Tail(p) : p \in {q \in P : q[1] = k}})])

\* the attribute values persisted: leaves at one depth below the attribute
NestedValues ==
    UNION {{Tree(P) : P \in {Q \in SUBSET KeyPaths(n) :
                                Q # {} /\ Cardinality(Q) <= MaxLeaves}} :
           n \in 1..MaxDepth - 1}

\* the dotted names of the shards of the PPI stem
ShardNames(fs, stem) ==
    {f.ext : f \in {q \in DOMAIN fs : q.dir = "PPI" /\ q.stem = stem
                                      /\ q.ext \notin {<<"p1">>, <<"p2">>}}}

InitHydrate ==
    /\ origin = <<>>
    /\ interaction = <<>>
    /\ ret = "none"
    /\ cwd = "PPI"
    /\ prots = StoredProteins
    /\ \E v \in NestedValues :
           LET d == Put(NewDict(Prot("s1"), Prot("s2")), "distance_map", v)
               stem == PPIHash(prots, d).stem
           IN  /\ obj = Keyed(d, stem)
               /\ files = PickleAll(<<>>, PickleDir(cwd), stem, Writes(Keyed(d, stem)))
    /\ err = ""
    /\ loaded = [args |-> <<>>, err |-> "", d |-> NewDict(Prot("s1"), Prot("s2"))]
    /\ phase = "loaded"
    /\ IdleAux

\* self._add_argument(arg) for the next of the names given   (ppi.py:41-42)
Hydrate(arg) ==
    /\ loaded.err = ""
    /\ arg \notin Range(loaded.args)
    /\ LET r == add_argument(files, prots, loaded.d, arg)
       IN  loaded' = [args |-> Append(loaded.args, arg), err |-> r.err, d |-> r.d]
    /\ UNCHANGED <<cwd, files, prots, obj, err, phase, engineVars, otherVars, auxVars>>

NextHydrate == \E arg \in ShardNames(files, <<"h1", "h2">>) : Hydrate(arg)

SpecHydrate == InitHydrate /\ [][NextHydrate]_vars

\* the value the instance dict d holds under the dotted name, if any
RECURSIVE Under(_, _)
Under(v, keys) ==
    IF keys = <<>> THEN <<v>>
    ELSE IF v.t = "dict" /\ Head(keys) \in DOMAIN v.m THEN Under(v.m[Head(keys)], Tail(keys))
    ELSE <<>>

LeafUnder(d, name) ==
    IF name[1] \in DOMAIN d THEN Under(d[name[1]], Tail(name)) ELSE <<>>

\* C24: after dotted names sharing a prefix were hydrated, in any order and
\* at any depth, the PPI holds under every one of them the leaf its shard
\* stores: no later name removes a leaf hydrated earlier, and none fails.
C24_NestedHydration ==
    /\ loaded.err \in {"", "none"}
    /\ \A name \in Range(loaded.args) :
           LeafUnder(loaded.d, name)
               = <<Loads(files[Path("PPI", <<"h1", "h2">>, name)])>>

(***************************************************************************)
(* Protein.iterate   (protein.py:129-141): a generator over the entries of *)
(* the PROTEIN folder as Path.iterdir hands them over, each loaded with    *)
(* Protein(stem).  iterdir yields the entries in arbitrary order.          *)
(***************************************************************************)
MaxWalks == 2   \* Protein.iterate calls over the store

\* the file stems of the PROTEIN folder
ProteinStems(fs) == {f.stem[1] : f \in {q \in DOMAIN fs : q.dir = "PROTEIN"}}

\* the orders in which path.PROTEIN.iterdir() can hand the entries over
Listings(S) ==
    {o \in [1..Cardinality(S) -> S] : \A i, j \in 1..Cardinality(S) : i # j => o[i] # o[j]}

\* the store holds the records of some Proteins
InitWalk ==
    /\ origin = <<>>
    /\ interaction = <<>>
    /\ ret = "none"
    /\ cwd = "PPI"
    /\ \E S \in SUBSET Seqs : \E sp \in [S -> {""} \cup Species] :
           files = [q \in {ProteinPath(x) : x \in S} |->
                       Dumps(ProteinRecord(StoredProteins[q.stem[1]],
                                           sp[StoredProteins[q.stem[1]]]))]
    /\ prots = StoredProteins
    /\ obj = NewDict(Prot("s1"), Prot("s2"))
    /\ err = ""
    /\ loaded = NotLoaded
    /\ phase = "new"
    /\ IdleAux

\* Protein.iterate() is called and the generator started   (protein.py:138-139)
WalkBegin ==
    /\ walk.pc \in {"idle", "finished"}
    /\ walk.calls < MaxWalks
    /\ \E o \in Listings(ProteinStems(files)) :
           walk' = [pc |-> "yield", order |-> o, emitted |-> <<>>,
                    before |-> walk.emitted, calls |-> walk.calls + 1]
    /\ UNCHANGED <<engineVars, storeVars, runs, io, it, protein, early_stopping, map>>

\* yield Protein(protein.stem)   (protein.py:140)
WalkYield ==
    /\ walk.pc = "yield"
    /\ Len(walk.emitted) < Len(walk.order)
    /\ LET h == walk.order[Len(walk.emitted) + 1]
           r == ProteinInit(files, h, FALSE)
       IN  walk' = IF r.err # "" THEN [walk EXCEPT !.pc = "raised"]
                   ELSE [walk EXCEPT !.emitted = Append(walk.emitted, [key |-> h, d |-> r.d])]
    /\ UNCHANGED <<engineVars, storeVars, runs, io, it, protein, early_stopping, map>>

\* the generator is exhausted
WalkEnd ==
    /\ walk.pc = "yield"
    /\ Len(walk.emitted) = Len(walk.order)
    /\ walk' = [walk EXCEPT !.pc = "finished"]
    /\ UNCHANGED <<engineVars, storeVars, runs, io, it, protein, early_stopping, map>>

NextWalk == WalkBegin \/ WalkYield \/ WalkEnd

SpecWalk == InitWalk /\ [][NextWalk]_vars

\* C25: Protein.iterate hands the stored Proteins over in sorted key order,
\* and a second iteration over the unchanged store yields the sequence the
\* first one yielded.
C25_SortedWalk ==
    /\ \A i, j \in DOMAIN walk.order : i < j => Rank(walk.order[i]) < Rank(walk.order[j])
    /\ (walk.pc = "finished" /\ walk.calls = 2) => walk.emitted = walk.before

(***************************************************************************)
(* EarlyStopping   (early_stop.py:13-54).  Losses and min_delta are        *)
(* integers: the class compares and subtracts them and nothing else.       *)
(***************************************************************************)
MaxPatience == 2   \* largest patience
MaxDelta == 1      \* largest min_delta
MaxLoss == 2       \* largest loss
MaxCalls == 4      \* calls of one instance

\* Slip: the counter has to exceed patience
EarlyStoppingCallStrict(es, loss) ==
    IF es.best_loss = <<>>
    THEN [es EXCEPT !.best_loss = <<loss>>, !.ret = "None"]
    ELSE IF loss < es.best_loss[1] - es.min_delta
    THEN [es EXCEPT !.best_loss = <<loss>>, !.counter = 0, !.ret = "None"]
    ELSE [es EXCEPT !.counter = es.counter + 1,
                    !.early_stop = es.early_stop \/ es.counter + 1 > es.patience,
                    !.ret = "None"]

\* EarlyStopping.__call__(loss): the instance after the call; the method
\* has no return statement, so the call evaluates to None   (early_stop.py:46-54)
EarlyStoppingCall(es, loss) ==
    IF es.best_loss = <<>>
    THEN [es EXCEPT !.best_loss = <<loss>>, !.ret = "None"]
    ELSE IF loss < es.best_loss[1] - es.min_delta
    THEN [es EXCEPT !.best_loss = <<loss>>, !.counter = 0, !.ret = "None"]
    ELSE [es EXCEPT !.counter = es.counter + 1,
                    !.early_stop = es.early_stop \/ es.counter + 1 >= es.patience,
                    !.ret = "None"]

\* EarlyStopping(patience, min_delta)   (early_stop.py:26-30)
InitEarlyStop ==
    /\ origin = <<>>
    /\ interaction = <<>>
    /\ ret = "none"
    /\ cwd = "PPI"
    /\ files = <<>>
    /\ prots = StoredProteins
    /\ obj = NewDict(Prot("s1"), Prot("s2"))
    /\ err = ""
    /\ loaded = NotLoaded
    /\ phase = "new"
    /\ runs = NoRuns
    /\ io = NoIO
    /\ it = NoIteration
    /\ protein = NoProtein
    /\ \E p \in 0..MaxPatience : \E md \in 0..MaxDelta :
           early_stopping = [patience |-> p, min_delta |-> md, best_loss |-> <<>>,
                             counter |-> 0, early_stop |-> FALSE, losses |-> <<>>,
                             ret |-> "none"]
    /\ map = NoMap
    /\ walk = NoWalk

\* early_stopping(loss)
Call(loss) ==
    /\ Len(early_stopping.losses) < MaxCalls
    /\ early_stopping' = [EarlyStoppingCall(early_stopping, loss) EXCEPT
                             !.losses = Append(early_stopping.losses, loss)]
    /\ UNCHANGED <<engineVars, storeVars, auxVars, map, walk>>

NextEarlyStop == \E loss \in 0..MaxLoss : Call(loss)

SpecEarlyStop == InitEarlyStop /\ [][NextEarlyStop]_vars

\* the best loss after the first n of the calls h, by the rule of the claim
RECURSIVE Best(_, _, _)
Best(h, md, n) ==
    IF n = 1 THEN h[1]
    ELSE IF h[n] < Best(h, md, n - 1) - md THEN h[n] ELSE Best(h, md, n - 1)

\* how many calls in a row, the n-th being the last, brought a loss that
\* was not lower than best_loss - min_delta
RECURSIVE Streak(_, _, _)
Streak(h, md, n) ==
    IF n < 2 \/ h[n] < Best(h, md, n - 1) - md THEN 0
    ELSE 1 + Streak(h, md, n - 1)

\* C26: early_stop is True exactly from the call on that is the patience-th
\* in a row whose loss is not lower than best_loss - min_delta (patience
\* >= 1); a lower loss sets the counter to 0 and becomes best_loss; the
\* first call only records best_loss.
C26_EarlyStop ==
    LET es == early_stopping
        n == Len(es.losses)
    IN  (es.patience >= 1 /\ n >= 1)
            => /\ es.early_stop
                      = (\E k \in 1..n : Streak(es.losses, es.min_delta, k) = es.patience)
               /\ es.counter = Streak(es.losses, es.min_delta, n)
               /\ es.best_loss = <<Best(es.losses, es.min_delta, n)>>
               /\ n = 1 => (es.counter = 0 /\ ~es.early_stop)

\* patience 2: a lower loss, then two calls in a row without one
C26_Witness ==
    /\ early_stopping.patience = 2 /\ early_stopping.min_delta = 0
    /\ early_stopping.losses = <<2, 1, 1, 1>>
    /\ early_stopping.early_stop /\ early_stopping.counter = 2
    /\ early_stopping.best_loss = <<1>>

\* C27: what __call__ returns is True if the training should stop and False
\* otherwise: it equals the early_stop flag after the call.
C27_ReturnsFlag ==
    (early_stopping.ret # "none")
        => early_stopping.ret = (IF early_stopping.early_stop THEN "True" ELSE "False")

(***************************************************************************)
(* Map.cmap   (map.py:137-153).  A Map holds a square matrix; the cells    *)
(* and the threshold are integers, compared and nothing else.              *)
(***************************************************************************)
MaxSize == 2   \* largest matrix: MaxSize x MaxSize
MaxDist == 2   \* largest cell value and largest threshold

\* the distance matrices: square, symmetric
Matrices ==
    UNION {{m \in [1..n -> [1..n -> 0..MaxDist]] :
               \A i, j \in 1..n : m[i][j] = m[j][i]} : n \in 1..MaxSize}

\* np.where(self.matrix > threshold, 1, 0): a new array   (map.py:152)
cmap(matrix, threshold) ==
    [i \in DOMAIN matrix |->
        [j \in DOMAIN matrix[i] |-> IF matrix[i][j] > threshold THEN 1 ELSE 0]]

\* Map(matrix)   (map.py:24-25)
InitMap ==
    /\ origin = <<>>
    /\ interaction = <<>>
    /\ ret = "none"
    /\ cwd = "PPI"
    /\ files = <<>>
    /\ prots = StoredProteins
    /\ obj = NewDict(Prot("s1"), Prot("s2"))
    /\ err = ""
    /\ loaded = NotLoaded
    /\ phase = "new"
    /\ runs = NoRuns
    /\ io = NoIO
    /\ it = NoIteration
    /\ protein = NoProtein
    /\ early_stopping = NoStopper
    /\ \E m \in Matrices : map = [NoMap EXCEPT !.matrix = m]
    /\ walk = NoWalk

\* map.cmap(threshold): self.matrix is read, the result is a new Map
Cmap(threshold) ==
    /\ map' = [matrix |-> map.matrix, threshold |-> threshold,
               out |-> cmap(map.matrix, threshold), called |-> TRUE]
    /\ UNCHANGED <<engineVars, storeVars, auxVars, early_stopping, walk>>

NextMap == \E threshold \in 0..MaxDist : Cmap(threshold)

SpecMap == InitMap /\ [][NextMap]_vars

\* C28: cmap(threshold) returns a Map in which every cell whose value is
\* below the threshold is 1 and every other cell is 0, and leaves the
\* matrix of the Map it is called on as it was.
C28_ContactMap ==
    [][\A threshold \in 0..MaxDist :
          Cmap(threshold)
              => /\ map'.matrix = map.matrix
                 /\ DOMAIN map'.out = DOMAIN map.matrix
                 /\ \A i \in DOMAIN map.matrix :
                        /\ DOMAIN map'.out[i] = DOMAIN map.matrix[i]
                        /\ \A j \in DOMAIN map.matrix[i] :
                               map'.out[i][j]
                                   = IF map.matrix[i][j] < threshold THEN 1 ELSE 0]_vars

(***************************************************************************)
(* Identity of a persisted PPI, checked under Spec.                        *)
(***************************************************************************)
\* the paths ppi.pickle() writes for the instance dict d
WrittenPaths(d) ==
    {Path(PickleDir(cwd), PPIHash(prots, d).stem, w.ext) :
        w \in Writes(Keyed(d, PPIHash(prots, d).stem))}

\* C30: pickle replaces p1 and p2 by their keys and leaves the identity of
\* the PPI as it was: __hash__ gives the same key, p1 and p2 resolve to
\* Proteins with the same sequences, and a second pickle of the instance
\* succeeds and writes the shard names the first one wrote.
C30_PickleKeepsIdentity ==
    [][Pickle =>
          /\ err' = ""
          /\ PPIHash(prots, obj').err = ""
          /\ PPIHash(prots, obj').stem = PPIHash(prots, obj).stem
          /\ SeqOf(obj'["p1"]) = SeqOf(obj["p1"])
          /\ SeqOf(obj'["p2"]) = SeqOf(obj["p2"])
          /\ WrittenPaths(obj') = WrittenPaths(obj)
          /\ phase = "pickled" => (WrittenPaths(obj) = DOMAIN files /\ files' = files)]_vars

\* a PPI of two different Proteins with a mapping attribute, pickled twice
C30_Witness ==
    /\ phase = "repickled" /\ err = ""
    /\ obj["p1"] = Str("h1") /\ obj["p2"] = Str("h2")
    /\ "distance_map" \in DOMAIN obj
    /\ Path(cwd, <<"h1", "h2">>, <<"distance_map", "CA">>) \in DOMAIN files

====
